---------------------------- MODULE Spec2Model ----------------------------
(***************************************************************************)
(* budget-buddy documentation scripts.                                     *)
(*                                                                         *)
(*   fix_code_blocks.py       the code-block normalizer and its driver     *)
(*   update_code_styling.py   the .code-block CSS replacement              *)
(*                                                                         *)
(* Text is a sequence of tokens.  Every literal the scripts search for is  *)
(* one token, any other character is "x" (text) or "sp" (a blank), and a   *)
(* line break is "NL".  The literals cannot overlap one another (each      *)
(* starts with its own "<" or "." and ends with its own ">" or "{"), so a  *)
(* substring test on the text is a token test on the sequence.  The text   *)
(* '<div' occurs exactly where a "DIV" or a "START" token starts.          *)
(*                                                                         *)
(*   "START"  <div class="code-block">     "END"    </div>                 *)
(*   "DIV"    <div of any other element    "PRE"    <pre>                  *)
(*   "CODE"   <code>                       "CCODE"  </code>                *)
(*   "CPRE"   </pre>                                                       *)
(***************************************************************************)
EXTENDS Naturals, Sequences, FiniteSets

VARIABLES
    fs,               \* the directory public/developer: path -> content
    stdout,           \* what the script has printed
    runs,             \* how many times the script has been started
    pc,               \* "idle" | "driver" | "loop" | "crashed"
    developer_files,  \* the driver's glob result
    di,               \* the driver's position in developer_files
    file_path,        \* fix_code_blocks: its argument
    lines,            \* fix_code_blocks: content.split('\n')
    i,                \* fix_code_blocks: position of the for loop (1-based)
    new_lines,
    in_code_block,
    code_content,
    indent

vars == <<fs, stdout, runs, pc, developer_files, di, file_path, lines, i,
          new_lines, in_code_block, code_content, indent>>

locals == <<file_path, lines, i, new_lines, in_code_block, code_content, indent>>

---------------------------------------------------------------------------
(* Bounds of the model *)

MaxLines == 4

MaxRuns == 2

MaxCssLen == 4

(* Program constant: the width of the literal deeper indent of the wrapper *)
ExtraIndentWidth == 24

---------------------------------------------------------------------------
(* Strings *)

Contains(text, tok) == \E k \in 1..Len(text) : text[k] = tok

\* str.index / str.find of a set of alternatives: the first position
FirstIndex(text, toks) ==
    CHOOSE k \in 1..Len(text) :
        text[k] \in toks /\ \A j \in 1..(k - 1) : text[j] \notin toks

\* content.split('\n')
RECURSIVE Split(_)
Split(content) ==
    IF ~Contains(content, "NL")
    THEN <<content>>
    ELSE LET k == FirstIndex(content, {"NL"})
         IN  <<SubSeq(content, 1, k - 1)>>
                 \o Split(SubSeq(content, k + 1, Len(content)))

\* '\n'.join(seq)
RECURSIVE Join(_)
Join(seq) ==
    IF seq = <<>> THEN <<>>
    ELSE IF Len(seq) = 1 THEN seq[1]
    ELSE seq[1] \o <<"NL">> \o Join(Tail(seq))

\* not text.strip(): only whitespace, or nothing
IsBlank(text) == \A k \in 1..Len(text) : text[k] \in {"sp", "NL"}

---------------------------------------------------------------------------
(* fix_code_blocks: the tests and values of the loop body *)

HasStart(line) == Contains(line, "START")

HasEnd(line) == Contains(line, "END")

\* line[:line.index('<div')]: up to the first '<div', of whatever element
Indent(line) == SubSeq(line, 1, FirstIndex(line, {"DIV", "START"}) - 1)

ExtraIndent == [k \in 1..ExtraIndentWidth |-> "sp"]

\* a variant of NeedsWrap that looks for no tag at all
NeedsWrapNoTagCheck(code_text) == ~IsBlank(code_text)

\* a variant of NeedsWrap that takes a body for wrapped only when it holds an
\* opening and a closing tag
NeedsWrapBothTags(code_text) ==
    /\ ~(   (Contains(code_text, "PRE") \/ Contains(code_text, "CODE"))
         /\ (Contains(code_text, "CPRE") \/ Contains(code_text, "CCODE")))
    /\ ~IsBlank(code_text)

\* the condition of the if on line 30
NeedsWrap(code_text) ==
    /\ ~Contains(code_text, "PRE")
    /\ ~Contains(code_text, "CODE")
    /\ ~IsBlank(code_text)

\* f"{indent}                        <pre><code>{code_text}</code></pre>"
Synth(ind, code_text) ==
    ind \o ExtraIndent \o <<"PRE", "CODE">> \o code_text \o <<"CCODE", "CPRE">>

\* a variant of PassThrough that loses the line
PassThroughDropped(out, line) == out

\* new_lines.append(line) of the else branch
PassThrough(out, line) == Append(out, line)

---------------------------------------------------------------------------
(* The inputs *)

Path == "a.html"

BatchPaths == {"a.html", "b.html", "c.html"}

\* a directory entry that cannot be opened (a dangling link, a file removed
\* after the listing): open() raises FileNotFoundError
NoFile == <<"ENOENT">>

LineSet ==
    { <<>>,                                      \* an empty line
      <<"sp">>,                                  \* a blank line
      <<"x">>,                                   \* text
      <<"sp", "START">>,                         \* an indented start marker
      <<"END">>,                                 \* an end marker
      <<"END", "START">>,                        \* both markers on one line
      <<"DIV", "START">>,                        \* another div before the marker
      <<"PRE", "CODE", "x", "CCODE", "CPRE">>,   \* a wrapped body
      <<"PRE">>,                                 \* an opening tag alone
      <<"CCODE">> }                              \* a closing tag alone

Docs == UNION { [1..n -> LineSet] : n \in 1..MaxLines }

BatchDocs ==
    { <<<<"x">>>>,
      <<<<"sp", "START">>, <<"x">>, <<"END">>>> }

\* the orders glob.glob may list a directory in
Listings(paths) ==
    { s \in [1..Cardinality(paths) -> paths] :
        \A a, b \in DOMAIN s : a # b => s[a] # s[b] }

---------------------------------------------------------------------------
(* fix_code_blocks.py *)

InitLocals ==
    /\ developer_files = <<>>
    /\ di = 1
    /\ file_path = ""
    /\ lines = <<>>
    /\ i = 1
    /\ new_lines = <<>>
    /\ in_code_block = FALSE
    /\ code_content = <<>>
    /\ indent = <<>>

Init ==
    /\ fs \in { [p \in {Path} |-> Join(d)] : d \in Docs }
    /\ stdout = <<>>
    /\ runs = 0
    /\ pc = "idle"
    /\ InitLocals

\* python3 fix_code_blocks.py: developer_files = glob.glob(...)
RunScript ==
    /\ pc \in {"idle", "crashed"}
    /\ runs < MaxRuns
    /\ runs' = runs + 1
    /\ developer_files' \in Listings(DOMAIN fs)
    /\ di' = 1
    /\ pc' = "driver"
    /\ stdout' = <<>>
    /\ UNCHANGED <<fs, locals>>

\* the next file of the driver's loop; fix_code_blocks up to the for loop
Open ==
    /\ pc = "driver"
    /\ di <= Len(developer_files)
    /\ fs[developer_files[di]] # NoFile
    /\ file_path' = developer_files[di]
    /\ stdout' = Append(stdout, <<"Processing", developer_files[di]>>)
    /\ lines' = Split(fs[developer_files[di]])
    /\ new_lines' = <<>>
    /\ in_code_block' = FALSE
    /\ code_content' = <<>>
    /\ indent' = <<>>
    /\ i' = 1
    /\ pc' = "loop"
    /\ UNCHANGED <<fs, runs, developer_files, di>>

\* open() raises FileNotFoundError; nothing catches it, the script ends
OpenFails ==
    /\ pc = "driver"
    /\ di <= Len(developer_files)
    /\ fs[developer_files[di]] = NoFile
    /\ file_path' = developer_files[di]
    /\ stdout' = Append(stdout, <<"Processing", developer_files[di]>>)
    /\ pc' = "crashed"
    /\ UNCHANGED <<fs, runs, developer_files, di, lines, i, new_lines,
                   in_code_block, code_content, indent>>

\* if '<div class="code-block">' in line
StartMarker ==
    /\ pc = "loop"
    /\ i <= Len(lines)
    /\ HasStart(lines[i])
    /\ in_code_block' = TRUE
    /\ indent' = Indent(lines[i])
    /\ new_lines' = Append(new_lines, lines[i])
    /\ i' = i + 1
    /\ UNCHANGED <<fs, stdout, runs, pc, developer_files, di, file_path,
                   lines, code_content>>

\* elif '</div>' in line and in_code_block
EndMarker ==
    /\ pc = "loop"
    /\ i <= Len(lines)
    /\ ~HasStart(lines[i])
    /\ HasEnd(lines[i]) /\ in_code_block
    /\ in_code_block' = FALSE
    /\ LET code_text == Join(code_content)
       IN  new_lines' =
               (IF NeedsWrap(code_text)
                THEN Append(new_lines, Synth(indent, code_text))
                ELSE new_lines \o code_content)
                   \o <<lines[i]>>
    /\ code_content' = <<>>
    /\ i' = i + 1
    /\ UNCHANGED <<fs, stdout, runs, pc, developer_files, di, file_path,
                   lines, indent>>

\* elif in_code_block
BodyLine ==
    /\ pc = "loop"
    /\ i <= Len(lines)
    /\ ~HasStart(lines[i])
    /\ ~(HasEnd(lines[i]) /\ in_code_block)
    /\ in_code_block
    /\ code_content' = Append(code_content, lines[i])
    /\ i' = i + 1
    /\ UNCHANGED <<fs, stdout, runs, pc, developer_files, di, file_path,
                   lines, new_lines, in_code_block, indent>>

\* else
PlainLine ==
    /\ pc = "loop"
    /\ i <= Len(lines)
    /\ ~HasStart(lines[i])
    /\ ~(HasEnd(lines[i]) /\ in_code_block)
    /\ ~in_code_block
    /\ new_lines' = PassThrough(new_lines, lines[i])
    /\ i' = i + 1
    /\ UNCHANGED <<fs, stdout, runs, pc, developer_files, di, file_path,
                   lines, in_code_block, code_content, indent>>

\* the loop is over: write '\n'.join(new_lines) back and return to the driver
WriteBack ==
    /\ pc = "loop"
    /\ i > Len(lines)
    /\ fs' = [fs EXCEPT ![file_path] = Join(new_lines)]
    /\ stdout' = Append(stdout, <<"Fixed", file_path>>)
    /\ di' = di + 1
    /\ pc' = "driver"
    /\ UNCHANGED <<runs, developer_files, locals>>

\* the driver's loop is over: print the count
Finish ==
    /\ pc = "driver"
    /\ di > Len(developer_files)
    /\ stdout' = Append(stdout, <<"Total", Len(developer_files)>>)
    /\ pc' = "idle"
    /\ UNCHANGED <<fs, runs, developer_files, di, locals>>

Next ==
    \/ RunScript
    \/ Open
    \/ StartMarker
    \/ EndMarker
    \/ BodyLine
    \/ PlainLine
    \/ WriteBack
    \/ Finish

Spec == Init /\ [][Next]_vars

---------------------------------------------------------------------------
(* fix_code_blocks.py over a directory with entries that cannot be opened *)

InitBatch ==
    /\ fs \in [BatchPaths -> { Join(d) : d \in BatchDocs } \cup {NoFile}]
    /\ stdout = <<>>
    /\ runs = 0
    /\ pc = "idle"
    /\ InitLocals

NextBatch ==
    \/ Next
    \/ OpenFails

SpecBatch == InitBatch /\ [][NextBatch]_vars

---------------------------------------------------------------------------
(* update_code_styling.py                                                  *)
(*                                                                         *)
(*   "LINK"     family=Titillium+Web:...&display=swap" rel="stylesheet">   *)
(*   "FIRA"     text that holds Fira+Code (the inserted <link>)            *)
(*   "SCRIPT"   <script>       "HL"  highlightSyntax    "CSCRIPT" </script>*)
(*   "MAIN"     .code-block {                           "RB"      }        *)
(*   "BEFORE"   .code-block::before {                                      *)
(*   "RPRE"     .code-block pre {      "RCODE"  .code-block code {         *)
(*   "KEYWORD"  .code-block .keyword { and so on for each syntax class     *)
(*   "NOJS"     the line <!-- No JavaScript needed for now -->             *)
(*   "IND"      the eight blanks new_css starts with                       *)
(*   "decl", "ws", "t"   declarations, white space, any other text         *)

\* content.replace(old, new), old one token
RECURSIVE Replace(_, _, _)
Replace(content, old, new) ==
    IF content = <<>> THEN <<>>
    ELSE (IF Head(content) = old THEN new ELSE <<Head(content)>>)
             \o Replace(Tail(content), old, new)

\* lines 14-18
AddFontImport(content) ==
    IF ~Contains(content, "FIRA")
    THEN Replace(content, "LINK", <<"LINK", "FIRA">>)
    ELSE content

\* re.sub of opener [^}]*? }: each opener up to the first "}" after it
RECURSIVE SubRule(_, _, _)
SubRule(content, opener, repl) ==
    IF \E a, b \in 1..Len(content) :
           a < b /\ content[a] = opener /\ content[b] = "RB"
    THEN LET a == FirstIndex(content, {opener})
             b == a + FirstIndex(SubSeq(content, a + 1, Len(content)), {"RB"})
         IN  SubSeq(content, 1, a - 1) \o repl
                 \o SubRule(SubSeq(content, b + 1, Len(content)), opener, repl)
    ELSE content

\* line 21: re.sub(r'<script>.*?highlightSyntax.*?</script>', '', ...)
RECURSIVE RemoveHighlightScripts(_)
RemoveHighlightScripts(content) ==
    IF \E a, h, b \in 1..Len(content) :
           /\ a < h /\ h < b
           /\ content[a] = "SCRIPT" /\ content[h] = "HL" /\ content[b] = "CSCRIPT"
    THEN LET a == FirstIndex(content, {"SCRIPT"})
             h == a + FirstIndex(SubSeq(content, a + 1, Len(content)), {"HL"})
             b == h + FirstIndex(SubSeq(content, h + 1, Len(content)), {"CSCRIPT"})
         IN  SubSeq(content, 1, a - 1)
                 \o RemoveHighlightScripts(SubSeq(content, b + 1, Len(content)))
    ELSE content

\* lines 25-64
NewCss ==
    << "IND", "MAIN", "decl", "RB", "ws", "BEFORE", "decl", "RB", "ws",
       "RPRE", "decl", "RB", "ws", "RCODE", "decl", "RB" >>

\* lines 67-68
ReplaceCodeBlockCss(content) == SubRule(content, "MAIN", NewCss)

\* line 71
SyntaxClasses ==
    << "KEYWORD", "STRING", "COMMENT", "NUMBER", "FUNCTION", "VARIABLE",
       "TYPE", "OPERATOR", "PUNCTUATION" >>

\* lines 72-74
RECURSIVE RemoveSyntaxClasses(_, _)
RemoveSyntaxClasses(content, k) ==
    IF k > Len(SyntaxClasses) THEN content
    ELSE RemoveSyntaxClasses(SubRule(content, SyntaxClasses[k], <<>>), k + 1)

\* line 77
RemoveNoJsComment(content) == Replace(content, "NOJS", <<>>)

StyleTokens ==
    {"LINK", "SCRIPT", "HL", "CSCRIPT", "MAIN", "RB", "RPRE", "KEYWORD", "NOJS", "t"}

StyleDocs == UNION { [1..n -> StyleTokens] : n \in 1..MaxCssLen }

InitStyle ==
    /\ fs \in { [p \in {Path} |-> d] : d \in StyleDocs }
    /\ stdout = <<>>
    /\ runs = 0
    /\ pc = "idle"
    /\ InitLocals

\* python3 update_code_styling.py over a directory that holds one file
UpdateCodeBlockStyling ==
    /\ pc = "idle"
    /\ runs < MaxRuns
    /\ runs' = runs + 1
    /\ fs' = [fs EXCEPT ![Path] =
                 RemoveNoJsComment(
                     RemoveSyntaxClasses(
                         ReplaceCodeBlockCss(
                             RemoveHighlightScripts(AddFontImport(fs[Path]))), 1))]
    /\ stdout' = <<<<"Updating", Path>>, <<"Updated", Path>>, <<"Total", 1>>>>
    /\ UNCHANGED <<pc, developer_files, di, locals>>

NextStyle == UpdateCodeBlockStyling

SpecStyle == InitStyle /\ [][NextStyle]_vars

---------------------------------------------------------------------------
(* Vocabulary of the claims.                                               *)
(* A region is what the Region Detector of the specification sees: it is   *)
(* opened by a start-marker line read outside a region and closed by the   *)
(* next line that contains the end marker; the lines between are its body. *)

IsPrefix(a, b) == Len(a) <= Len(b) /\ SubSeq(b, 1, Len(a)) = a

Suffix(seq, n) == SubSeq(seq, Len(seq) - n + 1, Len(seq))

\* insideRegion after the first k lines of ls
RECURSIVE InsideRegion(_, _)
InsideRegion(ls, k) ==
    IF k = 0 THEN FALSE
    ELSE IF InsideRegion(ls, k - 1) THEN ~HasEnd(ls[k]) ELSE HasStart(ls[k])

\* line e closes a region
IsRegionEnd(ls, e) ==
    /\ e \in 2..Len(ls)
    /\ InsideRegion(ls, e - 1)
    /\ HasEnd(ls[e])

\* the start-marker line of the region that line e closes
RegionStart(ls, e) ==
    CHOOSE s \in 1..(e - 1) :
        /\ ~InsideRegion(ls, s - 1)
        /\ \A j \in s..(e - 1) : InsideRegion(ls, j)

RegionBody(ls, e) == SubSeq(ls, RegionStart(ls, e) + 1, e - 1)

HasOpeningTag(text) == Contains(text, "PRE") \/ Contains(text, "CODE")

HasClosingTag(text) == Contains(text, "CPRE") \/ Contains(text, "CCODE")

\* the wrapping pair <pre><code> ... </code></pre>
HasWrapPair(text) ==
    \E a, b \in 1..Len(text) :
        /\ a + 1 < b /\ b < Len(text)
        /\ text[a] = "PRE" /\ text[a + 1] = "CODE"
        /\ text[b] = "CCODE" /\ text[b + 1] = "CPRE"

\* a start-marker line with no later end-marker line
HasUnterminatedStart(ls) ==
    \E s \in 1..Len(ls) :
        HasStart(ls[s]) /\ \A e \in (s + 1)..Len(ls) : ~HasEnd(ls[e])

\* every start marker has an end marker after it, every region is closed
\* and its body holds the wrapping pair
FullyCanonical(ls) ==
    /\ ~HasUnterminatedStart(ls)
    /\ ~InsideRegion(ls, Len(ls))
    /\ \A e \in 1..Len(ls) :
           IsRegionEnd(ls, e) => HasWrapPair(Join(RegionBody(ls, e)))

\* fix_code_blocks has returned: lines is what it read, fs what it wrote
Returned == pc = "driver" /\ di > 1

\* the for loop has just handled line i - 1
Handled == pc = "loop" /\ i > 1

\* the for loop is about to handle line i
AtLine == pc = "loop" /\ i <= Len(lines)

\* the for loop is about to take the region-end branch at line i
AtEndBranch == AtLine /\ in_code_block /\ HasEnd(lines[i]) /\ ~HasStart(lines[i])

---------------------------------------------------------------------------
(* C1.  Unterminated-region passthrough: a document that has a start-marker *)
(* line with no later end-marker line is written back with every line       *)
(* unchanged; the body lines buffered after the unterminated start marker   *)
(* are emitted, not dropped.                                                *)
C1_UnterminatedPassthrough ==
    (Returned /\ HasUnterminatedStart(lines)) => fs[file_path] = Join(lines)

(* C2.  Passthrough outside regions: a line read while in_code_block is     *)
(* false and with no start marker on it is appended to the output as it is; *)
(* no step of the loop alters, removes or reorders what was already         *)
(* emitted; a marker line that is handled as one is the last entry emitted  *)
(* by its step; and the file written is the join of the output.  So every   *)
(* outside line is in the file once, unchanged, in its order among the      *)
(* other outside lines and the marker lines.                                *)
C2_PassthroughOutside ==
    [][ /\ (AtLine /\ ~in_code_block /\ ~HasStart(lines[i]))
            => new_lines' = Append(new_lines, lines[i])
        /\ AtLine => IsPrefix(new_lines, new_lines')
        /\ (AtLine /\ (HasStart(lines[i]) \/ (HasEnd(lines[i]) /\ in_code_block)))
            => /\ Len(new_lines') > Len(new_lines)
               /\ new_lines'[Len(new_lines')] = lines[i]
        /\ (pc = "loop" /\ i > Len(lines))
            => fs'[file_path] = Join(new_lines)
      ]_vars

\* two lines with an end marker but no start marker were read outside a
\* region and both are in the output
C2_Witness ==
    /\ pc = "loop" /\ i = 3
    /\ HasEnd(lines[1]) /\ ~HasStart(lines[1]) /\ ~HasStart(lines[2])
    /\ new_lines = <<lines[1], lines[2]>>

(* C3.  Single synthesis per region: when a region is closed whose body has *)
(* no wrap tag and is not blank, the output ends with the start-marker      *)
(* line, then one entry leadingIndent + 24 blanks + <pre><code> + the body  *)
(* joined with newlines + </code></pre>, then the end-marker line.          *)
(* leadingIndent is read as line 23 computes it from the start-marker line. *)
C3_SingleSynthesis ==
    (Handled /\ IsRegionEnd(lines, i - 1)) =>
        LET e    == i - 1
            s    == RegionStart(lines, e)
            text == Join(RegionBody(lines, e))
        IN  (~HasOpeningTag(text) /\ ~HasClosingTag(text) /\ ~IsBlank(text)) =>
                /\ Len(new_lines) >= 3
                /\ Suffix(new_lines, 3) =
                       << lines[s],
                          Indent(lines[s]) \o ExtraIndent
                              \o <<"PRE", "CODE">> \o text \o <<"CCODE", "CPRE">>,
                          lines[e] >>

(* C4.  Idempotence on canonical input: a document whose start markers all  *)
(* have an end marker after them and whose regions all hold the wrapping    *)
(* pair is written back byte-identical.                                     *)
C4_CanonicalUnchanged ==
    (Returned /\ FullyCanonical(lines)) => fs[file_path] = Join(lines)

(* C5.  Empty-body safety: when a region is closed whose body has no lines  *)
(* or only blank lines, the output for the region is its input: the         *)
(* start-marker line, the body lines, the end-marker line.                  *)
C5_EmptyBodySafety ==
    (Handled /\ IsRegionEnd(lines, i - 1)) =>
        LET e == i - 1
            s == RegionStart(lines, e)
        IN  IsBlank(Join(RegionBody(lines, e))) =>
                /\ Len(new_lines) >= e - s + 1
                /\ Suffix(new_lines, e - s + 1) = SubSeq(lines, s, e)

C8_StartOnlyOutside ==
    [][ (AtLine /\ in_code_block) =>
          IF HasEnd(lines[i])
          THEN /\ ~in_code_block'
               /\ code_content' = <<>>
               /\ Len(new_lines') > Len(new_lines)
               /\ new_lines'[Len(new_lines')] = lines[i]
          ELSE /\ new_lines' = new_lines
               /\ code_content' = Append(code_content, lines[i])
      ]_vars

(* C10.  Idempotence on every input: a run of the script over its own       *)
(* output writes that output back unchanged.                                *)
C10_Idempotent ==
    [][ (pc = "loop" /\ i > Len(lines) /\ runs >= 2) => fs' = fs ]_vars

\* the second run is over and the file holds the wrapper the first run made
C10_Witness ==
    /\ pc = "idle" /\ runs = 2
    /\ \E k \in 1..Len(fs[Path]) :
           /\ k + ExtraIndentWidth + 1 <= Len(fs[Path])
           /\ SubSeq(fs[Path], k, k + ExtraIndentWidth + 1)
                  = ExtraIndent \o <<"PRE", "CODE">>
           /\ \E m \in (k + ExtraIndentWidth + 2)..Len(fs[Path]) :
                  fs[Path][m] = "NL" /\ m + 1 <= Len(fs[Path])
                      /\ fs[Path][m + 1] # "END"

(* C6.  Missing-file isolation: when the script has ended, every file of    *)
(* the listing that can be opened has been read, transformed and written    *)
(* back, whatever other entries of the listing could not be opened.         *)
C6_MissingFileIsolation ==
    (pc \in {"idle", "crashed"} /\ runs >= 1) =>
        \A k \in 1..Len(developer_files) :
            fs[developer_files[k]] # NoFile =>
                \E m \in 1..Len(stdout) : stdout[m] = <<"Fixed", developer_files[k]>>

(* C9.  Re-running the CSS-block replacement is stable: a run of            *)
(* update_code_block_styling over its own output, when that holds a         *)
(* .code-block rule, leaves the document as it is, so no rule of it is      *)
(* there a second time.                                                     *)
C9_RerunStable ==
    [][ (pc = "idle" /\ runs >= 1
            /\ \E a, b \in 1..Len(fs[Path]) :
                   a < b /\ fs[Path][a] = "MAIN" /\ fs[Path][b] = "RB")
          => fs' = fs
      ]_vars

=============================================================================
